---- MODULE Spec2Model ----
(***************************************************************************)
(* A model of xmlui-bundler.go: the platform resolvers, the fetcher, the   *)
(* two archive extractors, the layout helpers and the orchestrator main.   *)
(*                                                                         *)
(* Strings are sequences of tokens: a maximal run of letters and digits is *)
(* one token and every other character ("-", ".", "/", ":") is a token of  *)
(* its own, so that strings.HasPrefix, HasSuffix and Contains are computed *)
(* on the text and not looked up.  A path is a sequence of file names      *)
(* relative to the install directory (the working directory), which is the *)
(* empty path.                                                             *)
(***************************************************************************)
EXTENDS Integers, Sequences, FiniteSets, TLC

VARIABLES
  pc,          \* position of main
  goos,        \* runtime.GOOS
  goarch,      \* runtime.GOARCH
  token,       \* value of the environment variable GITHUB_TOKEN ("" = unset)
  fs,          \* the file system under the install directory
  buf,         \* the archive held between a download and its extraction
  appDir,      \* main's appDir
  sourceRoot,  \* main's sourceRoot
  mcpUrl,      \* main's mcpUrl
  serverURL,   \* main's serverURL
  exitStatus,  \* process exit status, -1 while running
  out,         \* the lines printed that the claims speak of
  requests,    \* the HTTP requests sent, in order
  getenvs,     \* number of reads of the credential variable
  trace,       \* the orchestrator's events, in order
  errs,        \* the errors that occurred, whether handled or dropped
  zipRes,      \* result of unzipTo in the extractor comparison
  tarRes       \* result of untarGzTo in the extractor comparison

vars == <<pc, goos, goarch, token, fs, buf, appDir, sourceRoot, mcpUrl,
          serverURL, exitStatus, out, requests, getenvs, trace, errs,
          zipRes, tarRes>>

-----------------------------------------------------------------------------
(* strings *)

HasPrefix(s, p) == Len(p) <= Len(s) /\ SubSeq(s, 1, Len(p)) = p

HasSuffix(s, x) == Len(x) <= Len(s) /\ SubSeq(s, Len(s) - Len(x) + 1, Len(s)) = x

Contains(s, x) ==
  \E i \in 0..(Len(s) - Len(x)) : SubSeq(s, i + 1, i + Len(x)) = x

RECURSIVE Cat(_)
Cat(ss) == IF ss = <<>> THEN <<>> ELSE Head(ss) \o Cat(Tail(ss))

-----------------------------------------------------------------------------
(* constants of the program *)

repoName == <<"xmlui", "-", "invoice">>

branchName == <<"main">>

appZipURL ==
  <<"https", ":", "/", "/", "codeload", ".", "github", ".", "com", "/",
    "jonudell", "/">> \o repoName \o
  <<"/", "zip", "/", "refs", "/", "heads", "/">> \o branchName

xmluiRepoZip ==
  <<"https", ":", "/", "/", "codeload", ".", "github", ".", "com", "/",
    "xmlui", "-", "com", "/", "xmlui", "/", "zip", "/", "refs", "/",
    "heads", "/", "main">>

privateRepo ==
  <<"codeload", ".", "github", ".", "com", "/", "xmlui", "-", "com", "/",
    "xmlui">>

mcpBaseURL ==
  <<"https", ":", "/", "/", "github", ".", "com", "/", "jonudell", "/",
    "xmlui", "-", "mcp", "/", "releases", "/", "download", "/",
    "v1", ".", "0", ".", "0", "/">>

serverBaseURL ==
  <<"https", ":", "/", "/", "github", ".", "com", "/", "JonUdell", "/",
    "xmlui", "-", "test", "-", "server", "/", "releases", "/", "download",
    "/", "v1", ".", "0", ".", "0", "/">>

dotZip == <<".", "zip">>

dotTarGz == <<".", "tar", ".", "gz">>

dotSh == <<".", "sh">>

-----------------------------------------------------------------------------
(* the platform resolvers *)

(* the tool resolver with a gzip-tar asset for linux *)
getPlatformSpecificMCPURL_linuxTar(os, arch) ==
  CASE os = "darwin" ->
         IF arch = "arm64"
           THEN mcpBaseURL \o <<"xmlui", "-", "mcp", "-", "mac", "-", "arm">> \o dotTarGz
           ELSE mcpBaseURL \o <<"xmlui", "-", "mcp", "-", "mac", "-", "amd">> \o dotTarGz
    [] os = "linux" ->
         mcpBaseURL \o <<"xmlui", "-", "mcp", "-", "linux", "-", "amd64">> \o dotTarGz
    [] os = "windows" ->
         mcpBaseURL \o <<"xmlui", "-", "mcp", "-", "windows", "-", "amd64">> \o dotZip
    [] OTHER ->
         mcpBaseURL \o <<"xmlui", "-", "mcp", "-", "mac", "-", "arm">> \o dotTarGz

getPlatformSpecificMCPURL(os, arch) ==
  CASE os = "darwin" ->
         IF arch = "arm64"
           THEN mcpBaseURL \o <<"xmlui", "-", "mcp", "-", "mac", "-", "arm">> \o dotTarGz
           ELSE mcpBaseURL \o <<"xmlui", "-", "mcp", "-", "mac", "-", "amd">> \o dotTarGz
    [] os = "linux" ->
         mcpBaseURL \o <<"xmlui", "-", "mcp", "-", "linux", "-", "amd64">> \o dotZip
    [] os = "windows" ->
         mcpBaseURL \o <<"xmlui", "-", "mcp", "-", "windows", "-", "amd64">> \o dotZip
    [] OTHER ->
         mcpBaseURL \o <<"xmlui", "-", "mcp", "-", "mac", "-", "arm">> \o dotTarGz

(* the server resolver falling back to the default for an unknown pair *)
getPlatformSpecificServerURL_armDefault(os, arch) ==
  CASE os = "darwin" /\ arch = "arm64" ->
         serverBaseURL \o <<"xmlui", "-", "test", "-", "server", "-", "mac", "-", "arm">> \o dotTarGz
    [] os = "darwin" /\ arch = "amd64" ->
         serverBaseURL \o <<"xmlui", "-", "test", "-", "server", "-", "mac", "-", "amd">> \o dotTarGz
    [] os = "linux" ->
         serverBaseURL \o <<"xmlui", "-", "test", "-", "server", "-", "linux", "-", "amd64">> \o dotTarGz
    [] os = "windows" ->
         serverBaseURL \o <<"xmlui", "-", "test", "-", "server", "-", "windows", "-", "amd64">> \o dotZip
    [] OTHER ->
         serverBaseURL \o <<"xmlui", "-", "test", "-", "server", "-", "mac", "-", "arm">> \o dotTarGz

getPlatformSpecificServerURL(os, arch) ==
  CASE os = "darwin" ->
         IF arch = "arm64"
           THEN serverBaseURL \o <<"xmlui", "-", "test", "-", "server", "-", "mac", "-", "arm">> \o dotTarGz
           ELSE serverBaseURL \o <<"xmlui", "-", "test", "-", "server", "-", "mac", "-", "amd">> \o dotTarGz
    [] os = "linux" ->
         serverBaseURL \o <<"xmlui", "-", "test", "-", "server", "-", "linux", "-", "amd64">> \o dotTarGz
    [] os = "windows" ->
         serverBaseURL \o <<"xmlui", "-", "test", "-", "server", "-", "windows", "-", "amd64">> \o dotZip
    [] OTHER ->
         serverBaseURL \o <<"xmlui", "-", "test", "-", "server", "-", "mac", "-", "arm">> \o dotTarGz

-----------------------------------------------------------------------------
(* file names *)

n_xmlui_invoice_main == <<"xmlui", "-", "invoice", "-", "main">>

n_xmlui_invoice == <<"xmlui", "-", "invoice">>

n_Main_xmlui == <<"Main", ".", "xmlui">>

n_start_sh == <<"start", ".", "sh">>

n_xmlui_test_server == <<"xmlui", "-", "test", "-", "server">>

n_xmlui_source == <<"xmlui", "-", "source">>

n_mcp == <<"mcp">>

n_mcpTmp == <<"mcpTmp">>

n_docs == <<"docs">>

n_src == <<"src">>

n_pages == <<"pages">>

n_components == <<"components">>

n_xmlui == <<"xmlui">>

n_xmlui_main == <<"xmlui", "-", "main">>

n_Button_md == <<"Button", ".", "md">>

n_Button_tsx == <<"Button", ".", "tsx">>

n_xmlui_mcp == <<"xmlui", "-", "mcp">>

n_xmlui_mcp_client == <<"xmlui", "-", "mcp", "-", "client">>

n_prepare_binaries_sh == <<"prepare", "-", "binaries", ".", "sh">>

n_run_mcp_client_sh == <<"run", "-", "mcp", "-", "client", ".", "sh">>

n_xmlui_mcp_exe == <<"xmlui", "-", "mcp", ".", "exe">>

n_xmlui_mcp_client_exe == <<"xmlui", "-", "mcp", "-", "client", ".", "exe">>

n_run_mcp_client_bat == <<"run", "-", "mcp", "-", "client", ".", "bat">>

n_cleanup_sh == <<"cleanup", ".", "sh">>

n_cleanup_bat == <<"cleanup", ".", "bat">>

n_README_md == <<"README", ".", "md">>

n_other == <<"other">>

n_bin == <<"bin">>

(* Every file name that occurs, in the byte order os.ReadDir sorts by. *)
NameOrder ==
  <<n_Button_md, n_Button_tsx, n_Main_xmlui, n_README_md, n_bin,
    n_cleanup_bat, n_cleanup_sh, n_components, n_docs, n_mcp, n_mcpTmp,
    n_other, n_pages, n_prepare_binaries_sh, n_run_mcp_client_bat,
    n_run_mcp_client_sh, n_src, n_start_sh, n_xmlui, n_xmlui_invoice,
    n_xmlui_invoice_main, n_xmlui_main, n_xmlui_mcp, n_xmlui_mcp_client,
    n_xmlui_mcp_client_exe, n_xmlui_mcp_exe, n_xmlui_source,
    n_xmlui_test_server>>

-----------------------------------------------------------------------------
(* the file system: a function from the paths that exist to their nodes.   *)
(* The install directory, the empty path, always exists and is a directory *)

installDir == <<>>

Join(dir, name) == Append(dir, name)

Dir(p) == SubSeq(p, 1, Len(p) - 1)

Base(p) == p[Len(p)]

DirNode == [kind |-> "dir", data |-> "", exec |-> FALSE]

FileNode(data, exec) == [kind |-> "file", data |-> data, exec |-> exec]

Exists(f, p) == p = installDir \/ p \in DOMAIN f

IsDir(f, p) == p = installDir \/ (p \in DOMAIN f /\ f[p].kind = "dir")

IsFile(f, p) == p \in DOMAIN f /\ f[p].kind = "file"

Under(f, p) == {q \in DOMAIN f : HasPrefix(q, p)}

Put(f, p, node) == [q \in DOMAIN f \cup {p} |-> IF q = p THEN node ELSE f[q]]

(* os.MkdirAll: nil when the path is a directory, an error when it or an   *)
(* ancestor is a file, else the missing directories are created.           *)
RECURSIVE MkdirAll(_, _)
MkdirAll(f, p) ==
  IF Exists(f, p)
    THEN [fs |-> f, ok |-> IsDir(f, p)]
    ELSE LET r == MkdirAll(f, Dir(p))
         IN  IF r.ok THEN [fs |-> Put(r.fs, p, DirNode), ok |-> TRUE]
                     ELSE r

(* os.Create: truncates or creates, mode 0666 for a new file *)
Create(f, p) ==
  IF IsDir(f, Dir(p)) /\ ~IsDir(f, p)
    THEN [fs |-> Put(f, p, FileNode("", IsFile(f, p) /\ f[p].exec)), ok |-> TRUE]
    ELSE [fs |-> f, ok |-> FALSE]

(* os.WriteFile(name, data, perm): perm applies to a file it creates *)
WriteFile(f, p, data, exec) ==
  IF IsDir(f, Dir(p)) /\ ~IsDir(f, p)
    THEN [fs |-> Put(f, p, FileNode(data, IF IsFile(f, p) THEN f[p].exec ELSE exec)),
          ok |-> TRUE]
    ELSE [fs |-> f, ok |-> FALSE]

(* io.Copy into a file just created *)
SetData(f, p, data) == [f EXCEPT ![p].data = data]

(* os.Chmod(path, 0755); the error is dropped at every call.  Windows has  *)
(* no execute bit.                                                         *)
Chmod(f, p) ==
  IF IsFile(f, p) /\ goos # "windows" THEN [f EXCEPT ![p].exec = TRUE] ELSE f

(* os.Rename: fails when the source is missing, when the target is an      *)
(* existing directory (Go reports EEXIST before the system call), when the *)
(* target's parent is no directory, when a directory would replace a file, *)
(* and when the target lies inside the source.                             *)
RenameOk(f, src, dst) ==
  /\ src # installDir
  /\ dst # installDir
  /\ src \in DOMAIN f
  /\ ~IsDir(f, dst)
  /\ IsDir(f, Dir(dst))
  /\ ~(IsDir(f, src) /\ IsFile(f, dst))
  /\ ~HasPrefix(dst, src)

Moved(src, dst, q) == dst \o SubSeq(q, Len(src) + 1, Len(q))

Rename(f, src, dst) ==
  IF RenameOk(f, src, dst)
    THEN LET gone == Under(f, src)
             kept == (DOMAIN f \ gone) \ {dst}
             new  == {Moved(src, dst, q) : q \in gone}
         IN  [fs |-> [q \in kept \cup new |->
                        IF q \in new
                          THEN f[src \o SubSeq(q, Len(dst) + 1, Len(q))]
                          ELSE f[q]],
              ok |-> TRUE]
    ELSE [fs |-> f, ok |-> FALSE]

(* os.RemoveAll *)
RemoveAll(f, p) == [q \in DOMAIN f \ Under(f, p) |-> f[q]]

(* os.ReadDir: the entries' names sorted by file name *)
ReadDir(f, p) ==
  IF IsDir(f, p)
    THEN [names |-> SelectSeq(NameOrder, LAMBDA n : Join(p, n) \in DOMAIN f),
          ok |-> TRUE]
    ELSE [names |-> <<>>, ok |-> FALSE]

-----------------------------------------------------------------------------
(* archives: the bytes of a download, as the format they are in and the    *)
(* entries they hold.  An entry's fault is "header" when the entry cannot  *)
(* be opened (zip) or its header not read (tar), "data" when reading its   *)
(* bytes fails part way.                                                   *)

Entry(name, isDir, data, fault) ==
  [name |-> name, isDir |-> isDir, data |-> data, fault |-> fault]

D(name) == Entry(name, TRUE, "", "none")

F(name, data) == Entry(name, FALSE, data, "none")

Archive(format, entries) == [format |-> format, entries |-> entries]

NoArchive == Archive("none", <<>>)

(* the name test of untarGzTo for the execute bit *)
IsExecutableName(fpath) ==
  \/ HasSuffix(Base(fpath), dotSh)
  \/ Base(fpath) = n_xmlui_mcp
  \/ Base(fpath) = n_xmlui_mcp_client
  \/ Base(fpath) = n_xmlui_test_server

(* unzipTo's loop.  A result is the file system left behind, whether an    *)
(* error was returned, and the errors that were dropped on the way.        *)
RECURSIVE unzipEntries(_, _, _, _)
unzipEntries(f, entries, dest, dropped) ==
  IF entries = <<>>
    THEN [fs |-> f, err |-> FALSE, dropped |-> dropped]
    ELSE
      LET e     == Head(entries)
          fpath == dest \o e.name
      IN  IF e.isDir
            THEN LET m == MkdirAll(f, fpath)
                 IN  unzipEntries(m.fs, Tail(entries), dest,
                                  dropped \cup (IF m.ok THEN {} ELSE {"mkdir"}))
            ELSE
              LET m  == MkdirAll(f, Dir(fpath))
                  d1 == dropped \cup (IF m.ok THEN {} ELSE {"mkdir"})
                  c  == Create(m.fs, fpath)
              IN  IF e.fault = "header"
                    THEN [fs |-> m.fs, err |-> TRUE, dropped |-> d1]
                  ELSE IF ~c.ok
                    THEN [fs |-> m.fs, err |-> TRUE, dropped |-> d1]
                  ELSE IF e.fault = "data"
                    THEN unzipEntries(SetData(c.fs, fpath, "partial"),
                                      Tail(entries), dest, d1 \cup {"write"})
                  ELSE unzipEntries(SetData(c.fs, fpath, e.data),
                                    Tail(entries), dest, d1)

unzipTo(f, data, dest) ==
  IF data.format # "zip"
    THEN [fs |-> f, err |-> TRUE, dropped |-> {}]
    ELSE unzipEntries(f, data.entries, dest, {})

RECURSIVE untarEntries(_, _, _, _)
untarEntries(f, entries, dest, dropped) ==
  IF entries = <<>>
    THEN [fs |-> f, err |-> FALSE, dropped |-> dropped]
    ELSE
      LET e     == Head(entries)
          fpath == dest \o e.name
      IN  IF e.fault = "header"
            THEN [fs |-> f, err |-> TRUE, dropped |-> dropped]
          ELSE IF e.isDir
            THEN LET m == MkdirAll(f, fpath)
                 IN  untarEntries(m.fs, Tail(entries), dest,
                                  dropped \cup (IF m.ok THEN {} ELSE {"mkdir"}))
            ELSE
              LET m  == MkdirAll(f, Dir(fpath))
                  d1 == dropped \cup (IF m.ok THEN {} ELSE {"mkdir"})
                  c  == Create(m.fs, fpath)
              IN  IF ~c.ok
                    THEN [fs |-> m.fs, err |-> TRUE, dropped |-> d1]
                  ELSE IF e.fault = "data"
                    THEN [fs |-> SetData(c.fs, fpath, "partial"),
                          err |-> TRUE, dropped |-> d1]
                  ELSE
                    LET w == SetData(c.fs, fpath, e.data)
                    IN  untarEntries(IF IsExecutableName(fpath)
                                       THEN Chmod(w, fpath) ELSE w,
                                     Tail(entries), dest, d1)

untarGzTo(f, data, dest) ==
  IF data.format # "tgz"
    THEN [fs |-> f, err |-> TRUE, dropped |-> {}]
    ELSE untarEntries(f, data.entries, dest, {})

-----------------------------------------------------------------------------
(* layout helpers *)

(* moveIntoPlace with the error of os.Rename dropped *)
moveIntoPlace_renameUnchecked(f, srcParent, name, install) ==
  LET repoPrefix == name \o <<"-">>
      entries    == ReadDir(f, srcParent)
      matches    == SelectSeq(entries.names, LAMBDA n : HasPrefix(n, repoPrefix))
  IN  IF ~entries.ok
        THEN [fs |-> f, path |-> <<>>, err |-> "readdir"]
      ELSE IF matches = <<>>
        THEN [fs |-> f, path |-> <<>>, err |-> "notfound"]
      ELSE
        [fs   |-> Rename(f, Join(srcParent, Head(matches)), Join(install, name)).fs,
         path |-> Join(install, name),
         err  |-> "none"]

moveIntoPlace(f, srcParent, name, install) ==
  LET repoPrefix == name \o <<"-">>
      entries    == ReadDir(f, srcParent)
      matches    == SelectSeq(entries.names, LAMBDA n : HasPrefix(n, repoPrefix))
  IN  IF ~entries.ok
        THEN [fs |-> f, path |-> <<>>, err |-> "readdir"]
      ELSE IF matches = <<>>
        THEN [fs |-> f, path |-> <<>>, err |-> "notfound"]
      ELSE
        LET tmp   == Join(srcParent, Head(matches))
            final == Join(install, name)
            r     == Rename(f, tmp, final)
        IN  IF r.ok THEN [fs |-> r.fs, path |-> final, err |-> "none"]
                    ELSE [fs |-> f, path |-> <<>>, err |-> "rename"]

RECURSIVE copyFiles(_, _, _)
RECURSIVE copyEntries(_, _, _, _)
copyFiles(f, src, dst) ==
  LET entries == ReadDir(f, src)
  IN  IF ~entries.ok THEN [fs |-> f, ok |-> FALSE]
                     ELSE copyEntries(f, entries.names, src, dst)

copyEntries(f, names, src, dst) ==
  IF names = <<>>
    THEN [fs |-> f, ok |-> TRUE]
    ELSE
      LET srcPath == Join(src, Head(names))
          dstPath == Join(dst, Head(names))
      IN  IF IsDir(f, srcPath)
            THEN LET m == MkdirAll(f, dstPath)
                     r == copyFiles(m.fs, srcPath, dstPath)
                 IN  IF r.ok THEN copyEntries(r.fs, Tail(names), src, dst)
                             ELSE r
            ELSE LET w == WriteFile(f, dstPath, f[srcPath].data, FALSE)
                 IN  IF w.ok THEN copyEntries(w.fs, Tail(names), src, dst)
                             ELSE [fs |-> w.fs, ok |-> FALSE]

-----------------------------------------------------------------------------
(* the fetcher *)

StatusOK == 200

StatusUnauthorized == 401

(* What the network can answer: no connection, a non-200 status, a body    *)
(* that breaks off, or one of the given bodies in full.                    *)
Responses(bodies) ==
    {[net |-> n, status |-> 0, body |-> NoArchive] : n \in {"dial"}}
  \cup
    {[net |-> "ok", status |-> s, body |-> NoArchive] :
       s \in {StatusUnauthorized, 404}}
  \cup
    {[net |-> "body", status |-> StatusOK, body |-> NoArchive]}
  \cup
    {[net |-> "ok", status |-> StatusOK, body |-> b] : b \in bodies}

(* downloadWithProgress(url, filename) against the answer resp, with tok   *)
(* in the environment: the request it sends, the reads of the environment, *)
(* the lines about the credential, and what it returns.                    *)
(* downloadWithProgress with the credential sent to every codeload URL *)
downloadWithProgress_anyCodeload(url, tok, resp) ==
  LET private == Contains(url, <<"codeload", ".", "github", ".", "com">>)
      auth    == IF private /\ tok # "" THEN tok ELSE ""
      err     == IF resp.net = "dial" THEN "transport"
                 ELSE IF resp.status # StatusOK THEN "status"
                 ELSE IF resp.net = "body" THEN "read"
                 ELSE "none"
  IN  [reqs   |-> << [url |-> url, auth |-> auth] >>,
       getenv |-> IF private THEN 1 ELSE 0,
       lines  |-> IF ~private THEN <<>>
                  ELSE IF tok # "" THEN << <<"UsingToken">> >>
                  ELSE << <<"NoToken">> >>,
       err    |-> err,
       data   |-> IF err = "none" THEN resp.body ELSE NoArchive]

downloadWithProgress(url, tok, resp) ==
  LET private == Contains(url, privateRepo)
      auth    == IF private /\ tok # "" THEN tok ELSE ""
      lines   == IF ~private THEN <<>>
                 ELSE IF tok # "" THEN << <<"UsingToken">> >>
                 ELSE << <<"NoToken">> >>
      err     == IF resp.net = "dial" THEN "transport"
                 ELSE IF resp.status # StatusOK
                   THEN IF private /\ resp.status = StatusUnauthorized
                          THEN "auth" ELSE "status"
                 ELSE IF resp.net = "body" THEN "read"
                 ELSE "none"
  IN  [reqs   |-> << [url |-> url, auth |-> auth] >>,
       getenv |-> IF private THEN 1 ELSE 0,
       lines  |-> lines,
       err    |-> err,
       data   |-> IF err = "none" THEN resp.body ELSE NoArchive]

-----------------------------------------------------------------------------
(* the inputs: platforms, the credential, what the install directory holds *)
(* at the start, and what each URL can serve                               *)

OSes == {"darwin", "linux", "windows", "freebsd"}

Archs == {"amd64", "arm64", "386"}

Tokens == {"", "ghp_secret"}

EmptyFS == [q \in {} |-> DirNode]

(* a stray docs directory at the root *)
StrayDocsFS ==
  (<<n_docs>> :> DirNode) @@ (<<n_docs, n_README_md>> :> FileNode("stray-docs", FALSE))

(* a stray src directory at the root *)
StraySrcFS ==
  (<<n_src>> :> DirNode) @@ (<<n_src, n_README_md>> :> FileNode("stray-src", FALSE))

(* the bundle an earlier run left *)
RerunFS ==
     (<<n_xmlui_invoice>> :> DirNode)
  @@ (<<n_xmlui_invoice, n_Main_xmlui>> :> FileNode("app", FALSE))
  @@ (<<n_mcp>> :> DirNode)
  @@ (<<n_mcp, n_docs>> :> DirNode)
  @@ (<<n_mcp, n_src>> :> DirNode)
  @@ (<<n_cleanup_sh>> :> FileNode("cleanup", TRUE))

StartFS == {EmptyFS, StrayDocsFS, StraySrcFS, RerunFS}

AppRoot == <<Cat(<<repoName, <<"-">>, branchName>>)>>

AppGood ==
  Archive("zip", <<D(AppRoot),
                   F(Join(AppRoot, n_Main_xmlui), "app"),
                   F(Join(AppRoot, n_start_sh), "start-app")>>)

AppNoDash ==
  Archive("zip", <<D(<<n_xmlui_invoice>>),
                   F(<<n_xmlui_invoice, n_Main_xmlui>>, "app")>>)

AppDataFault ==
  Archive("zip", <<D(AppRoot),
                   Entry(Join(AppRoot, n_Main_xmlui), FALSE, "app", "data")>>)

AppHeaderFault ==
  Archive("zip", <<D(AppRoot),
                   Entry(Join(AppRoot, n_Main_xmlui), FALSE, "app", "header")>>)

Garbage == Archive("garbage", <<>>)

AppArchives == {AppGood, AppNoDash, AppDataFault, AppHeaderFault, Garbage}

LibDocs == <<n_xmlui_main, n_docs, n_pages, n_components>>

LibSrc == <<n_xmlui_main, n_xmlui, n_src, n_components>>

LibGood ==
  Archive("zip", <<D(<<n_xmlui_main>>),
                   F(Join(LibDocs, n_Button_md), "md"),
                   F(Join(LibSrc, n_Button_tsx), "tsx")>>)

LibNoRoot ==
  Archive("zip", <<D(<<n_other>>), F(<<n_other, n_README_md>>, "readme")>>)

LibNoDocs ==
  Archive("zip", <<D(<<n_xmlui_main>>), F(Join(LibSrc, n_Button_tsx), "tsx")>>)

LibArchives == {LibGood, LibNoRoot, LibNoDocs, Garbage}

(* the format a URL's extension promises *)
Served(url) == IF HasSuffix(url, dotZip) THEN "zip" ELSE "tgz"

ExpectedFiles(os) ==
  IF os = "windows"
    THEN <<n_xmlui_mcp_exe, n_xmlui_mcp_client_exe, n_run_mcp_client_bat>>
    ELSE <<n_xmlui_mcp, n_xmlui_mcp_client, n_prepare_binaries_sh,
           n_run_mcp_client_sh>>

Range(q) == {q[i] : i \in DOMAIN q}

ToolEntries(S) ==
  LET names == SelectSeq(NameOrder, LAMBDA n : n \in S)
  IN  [i \in DOMAIN names |-> F(<<names[i]>>, "tool")]

(* a tool archive holds any subset of the platform's expected files, and a *)
(* file that is not expected                                                *)
ToolArchives(url, os) ==
    {Archive(Served(url), ToolEntries(S \cup {n_README_md})) :
       S \in SUBSET Range(ExpectedFiles(os))}
  \cup {Garbage}

SrvGood(url) ==
  Archive(Served(url), <<F(<<n_start_sh>>, "start-srv"),
                         F(<<n_xmlui_test_server>>, "srv")>>)

SrvNoStart(url) ==
  Archive(Served(url), <<F(<<n_xmlui_test_server>>, "srv")>>)

SrvDataFault(url) ==
  Archive(Served(url), <<Entry(<<n_xmlui_test_server>>, FALSE, "srv", "data")>>)

ServerArchives(url) == {SrvGood(url), SrvNoStart(url), SrvDataFault(url), Garbage}

-----------------------------------------------------------------------------
(* main *)

tmpDir == Join(installDir, n_xmlui_source)

mcpDir == Join(installDir, n_mcp)

docsDir == Join(mcpDir, n_docs)

srcDir == Join(mcpDir, n_src)

tmpMCP == Join(installDir, n_mcpTmp)

Ev(ev, ok, fmt, dest) == [ev |-> ev, ok |-> ok, fmt |-> fmt, dest |-> dest]

Init ==
  /\ pc = "DownloadApp"
  /\ goos \in OSes
  /\ goarch \in Archs
  /\ token \in Tokens
  /\ fs \in StartFS
  /\ buf = NoArchive
  /\ appDir = <<>>
  /\ sourceRoot = <<>>
  /\ mcpUrl = <<>>
  /\ serverURL = <<>>
  /\ exitStatus = -1
  /\ out = <<>>
  /\ requests = <<>>
  /\ getenvs = 0
  /\ trace = <<>>
  /\ errs = {}
  /\ zipRes = NoArchive
  /\ tarRes = NoArchive

(* os.Exit(1) after the step's message *)
Fail(err) ==
  /\ pc' = "exited"
  /\ exitStatus' = 1
  /\ errs' = errs \cup {err}

(* one call of downloadWithProgress from main and the test of its error *)
Fetch(url, bodies, ev, err, next) ==
  \E resp \in Responses(bodies) :
    LET r == downloadWithProgress(url, token, resp)
    IN  /\ requests' = requests \o r.reqs
        /\ getenvs' = getenvs + r.getenv
        /\ out' = out \o r.lines
        /\ trace' = Append(trace, Ev(ev, r.err = "none", "", <<>>))
        /\ buf' = r.data
        /\ IF r.err # "none"
             THEN Fail(err)
             ELSE /\ pc' = next
                  /\ UNCHANGED <<exitStatus, errs>>

(* an extraction whose error main does not test *)
Extract_errorDropped(format, dest, pre, ev, err, next) ==
  LET r == IF format = "zip" THEN unzipTo(pre.fs, buf, dest)
                             ELSE untarGzTo(pre.fs, buf, dest)
  IN  /\ fs' = r.fs
      /\ buf' = NoArchive
      /\ trace' = Append(trace, Ev(ev, ~r.err, format, dest))
      /\ pc' = next
      /\ errs' = errs \cup r.dropped \cup (IF r.err THEN {err} ELSE {})
      /\ UNCHANGED exitStatus

(* one extraction by main and the test of its error *)
Extract(format, dest, pre, ev, err, next) ==
  LET r == IF format = "zip" THEN unzipTo(pre.fs, buf, dest)
                             ELSE untarGzTo(pre.fs, buf, dest)
      dropped == r.dropped \cup (IF pre.ok THEN {} ELSE {"mkdir"})
  IN  /\ fs' = r.fs
      /\ buf' = NoArchive
      /\ trace' = Append(trace, Ev(ev, ~r.err, format, dest))
      /\ IF r.err
           THEN /\ pc' = "exited"
                /\ exitStatus' = 1
                /\ errs' = errs \cup dropped \cup {err}
           ELSE /\ pc' = next
                /\ errs' = errs \cup dropped
                /\ UNCHANGED exitStatus

DownloadApp ==
  /\ pc = "DownloadApp"
  /\ Fetch(appZipURL, AppArchives, "DownloadApp", "downloadApp", "ExtractApp")
  /\ UNCHANGED <<goos, goarch, token, fs, appDir, sourceRoot, mcpUrl,
                 serverURL, zipRes, tarRes>>

ExtractApp ==
  /\ pc = "ExtractApp"
  /\ Extract("zip", installDir, [fs |-> fs, ok |-> TRUE],
             "ExtractApp", "extractApp", "MoveIntoPlace")
  /\ UNCHANGED <<goos, goarch, token, appDir, sourceRoot, mcpUrl, serverURL,
                 out, requests, getenvs, zipRes, tarRes>>

MoveIntoPlace ==
  /\ pc = "MoveIntoPlace"
  /\ LET r == moveIntoPlace(fs, installDir, repoName, installDir)
     IN  /\ fs' = r.fs
         /\ appDir' = r.path
         /\ trace' = Append(trace, Ev("MoveIntoPlace", r.err = "none", "", r.path))
         /\ IF r.err # "none"
              THEN Fail("organize")
              ELSE /\ pc' = "DownloadXmlui"
                   /\ UNCHANGED <<exitStatus, errs>>
  /\ UNCHANGED <<goos, goarch, token, buf, sourceRoot, mcpUrl, serverURL,
                 out, requests, getenvs, zipRes, tarRes>>

DownloadXmlui ==
  /\ pc = "DownloadXmlui"
  /\ Fetch(xmluiRepoZip, LibArchives, "DownloadXmlui", "downloadXmlui", "ExtractXmlui")
  /\ UNCHANGED <<goos, goarch, token, fs, appDir, sourceRoot, mcpUrl,
                 serverURL, zipRes, tarRes>>

ExtractXmlui ==
  /\ pc = "ExtractXmlui"
  /\ Extract("zip", tmpDir, MkdirAll(fs, tmpDir),
             "ExtractXmlui", "extractXmlui", "CopyComponents")
  /\ UNCHANGED <<goos, goarch, token, appDir, sourceRoot, mcpUrl, serverURL,
                 out, requests, getenvs, zipRes, tarRes>>

(* the search for the extracted root, the mcp directories and the two copies *)
CopyComponents ==
  /\ pc = "CopyComponents"
  /\ LET entries == ReadDir(fs, tmpDir)
         roots   == SelectSeq(entries.names,
                      LAMBDA n : IsDir(fs, Join(tmpDir, n))
                                 /\ HasPrefix(n, <<"xmlui", "-">>))
         root    == IF roots = <<>> THEN <<>> ELSE Join(tmpDir, Head(roots))
         m1 == MkdirAll(fs, mcpDir)
         m2 == MkdirAll(m1.fs, docsDir)
         m3 == MkdirAll(m2.fs, srcDir)
         m4 == MkdirAll(m3.fs, docsDir \o <<n_pages, n_components>>)
         m5 == MkdirAll(m4.fs, Join(srcDir, n_components))
         c1 == copyFiles(m5.fs, root \o <<n_docs, n_pages, n_components>>,
                         docsDir \o <<n_pages, n_components>>)
         c2 == copyFiles(c1.fs, root \o <<n_xmlui, n_src, n_components>>,
                         Join(srcDir, n_components))
         base == (IF entries.ok THEN {} ELSE {"readTmpDir"})
                 \cup (IF m1.ok /\ m2.ok /\ m3.ok THEN {} ELSE {"mkdir"})
     IN  /\ sourceRoot' = root
         /\ IF root # <<>>
              THEN /\ fs' = c2.fs
                   /\ trace' = Append(trace, Ev("CopyComponents", c1.ok /\ c2.ok, "", mcpDir))
                   /\ errs' = errs \cup base
                               \cup (IF m4.ok /\ m5.ok THEN {} ELSE {"mkdir"})
                               \cup (IF c1.ok THEN {} ELSE {"copyDocs"})
                               \cup (IF c2.ok THEN {} ELSE {"copySrc"})
              ELSE /\ fs' = m3.fs
                   /\ trace' = trace
                   /\ errs' = errs \cup base \cup {"locateRoot"}
  /\ pc' = "RemoveTmpDir"
  /\ UNCHANGED <<goos, goarch, token, buf, appDir, mcpUrl, serverURL,
                 exitStatus, out, requests, getenvs, zipRes, tarRes>>

(* the step without its os.RemoveAll *)
RemoveTmpDir_kept ==
  /\ pc = "RemoveTmpDir"
  /\ pc' = "DownloadMCP"
  /\ UNCHANGED <<goos, goarch, token, fs, buf, appDir, sourceRoot, mcpUrl,
                 serverURL, exitStatus, out, requests, getenvs, trace, errs,
                 zipRes, tarRes>>

RemoveTmpDir ==
  /\ pc = "RemoveTmpDir"
  /\ fs' = RemoveAll(fs, tmpDir)
  /\ pc' = "DownloadMCP"
  /\ UNCHANGED <<goos, goarch, token, buf, appDir, sourceRoot, mcpUrl,
                 serverURL, exitStatus, out, requests, getenvs, trace, errs,
                 zipRes, tarRes>>

DownloadMCP ==
  /\ pc = "DownloadMCP"
  /\ LET url == getPlatformSpecificMCPURL(goos, goarch)
     IN  /\ mcpUrl' = url
         /\ Fetch(url, ToolArchives(url, goos), "DownloadMCP", "downloadMCP", "ExtractMCP")
  /\ UNCHANGED <<goos, goarch, token, fs, appDir, sourceRoot, serverURL,
                 zipRes, tarRes>>

ExtractMCP ==
  /\ pc = "ExtractMCP"
  /\ Extract(IF HasSuffix(mcpUrl, dotZip) THEN "zip" ELSE "tgz", tmpMCP,
             MkdirAll(fs, tmpMCP), "ExtractMCP", "extractMCP", "Relocate")
  /\ UNCHANGED <<goos, goarch, token, appDir, sourceRoot, mcpUrl, serverURL,
                 out, requests, getenvs, zipRes, tarRes>>

(* the loop leaving at the first file it cannot move *)
relocate_break(st, names) ==
  LET F1[k \in 0..Len(names)] ==
        IF k = 0 THEN [st |-> st, stop |-> FALSE]
        ELSE LET p    == F1[k - 1]
                 name == names[k]
                 r    == Rename(p.st.fs, Join(tmpMCP, name), Join(mcpDir, name))
             IN  IF p.stop THEN p
                 ELSE IF ~r.ok
                   THEN [st |-> [fs |-> p.st.fs,
                                 lines |-> Append(p.st.lines, <<"Skipping", name>>),
                                 errs |-> p.st.errs \cup {"missingTool"}],
                         stop |-> TRUE]
                 ELSE [st |-> [fs |-> IF goos # "windows"
                                         /\ (HasSuffix(name, dotSh)
                                             \/ ~Contains(name, <<".">>))
                                        THEN Chmod(r.fs, Join(mcpDir, name))
                                        ELSE r.fs,
                               lines |-> Append(p.st.lines, <<"Moved", name>>),
                               errs |-> p.st.errs],
                       stop |-> FALSE]
  IN  F1[Len(names)].st

(* the loop over the expected files: what it leaves, prints and drops *)
RECURSIVE relocate(_, _)
relocate(st, names) ==
  IF names = <<>>
    THEN st
    ELSE
      LET name == Head(names)
          src  == Join(tmpMCP, name)
          dst  == Join(mcpDir, name)
          r    == Rename(st.fs, src, dst)
      IN  IF ~r.ok
            THEN relocate([fs    |-> st.fs,
                           lines |-> Append(st.lines, <<"Skipping", name>>),
                           errs  |-> st.errs \cup
                                       {IF Exists(st.fs, src) THEN "relocate"
                                                              ELSE "missingTool"}],
                          Tail(names))
            ELSE relocate([fs    |-> IF goos # "windows"
                                        /\ (HasSuffix(name, dotSh)
                                            \/ ~Contains(name, <<".">>))
                                       THEN Chmod(r.fs, dst) ELSE r.fs,
                           lines |-> Append(st.lines, <<"Moved", name>>),
                           errs  |-> st.errs],
                          Tail(names))

Relocate ==
  /\ pc = "Relocate"
  /\ LET r == relocate([fs |-> fs, lines |-> <<>>, errs |-> {}], ExpectedFiles(goos))
     IN  /\ fs' = r.fs
         /\ out' = out \o r.lines
         /\ errs' = errs \cup r.errs
         /\ trace' = Append(trace, Ev("Relocate", TRUE, "", mcpDir))
  /\ pc' = "RemoveTmpMCP"
  /\ UNCHANGED <<goos, goarch, token, buf, appDir, sourceRoot, mcpUrl,
                 serverURL, exitStatus, requests, getenvs, zipRes, tarRes>>

RemoveTmpMCP ==
  /\ pc = "RemoveTmpMCP"
  /\ fs' = RemoveAll(fs, tmpMCP)
  /\ pc' = "MoveStray"
  /\ UNCHANGED <<goos, goarch, token, buf, appDir, sourceRoot, mcpUrl,
                 serverURL, exitStatus, out, requests, getenvs, trace, errs,
                 zipRes, tarRes>>

(* one root-level directory moved under mcp, when os.Stat finds it *)
moveStray(st, name, dst, err) ==
  IF Exists(st.fs, Join(installDir, name))
    THEN LET r == Rename(st.fs, Join(installDir, name), dst)
         IN  IF r.ok
               THEN [fs |-> r.fs, lines |-> st.lines, errs |-> st.errs]
               ELSE [fs |-> st.fs,
                     lines |-> Append(st.lines, <<"CouldNotMove", name>>),
                     errs |-> st.errs \cup {err}]
    ELSE st

MoveStray ==
  /\ pc = "MoveStray"
  /\ LET a == moveStray([fs |-> fs, lines |-> <<>>, errs |-> {}],
                        n_docs, docsDir, "renameDocs")
         b == moveStray(a, n_src, srcDir, "renameSrc")
     IN  /\ fs' = b.fs
         /\ out' = out \o b.lines
         /\ errs' = errs \cup b.errs
         /\ trace' = Append(trace, Ev("MoveStray", b.errs = {}, "", mcpDir))
  /\ pc' = "DownloadServer"
  /\ UNCHANGED <<goos, goarch, token, buf, appDir, sourceRoot, mcpUrl,
                 serverURL, exitStatus, requests, getenvs, zipRes, tarRes>>

DownloadServer ==
  /\ pc = "DownloadServer"
  /\ LET url == getPlatformSpecificServerURL(goos, goarch)
     IN  /\ serverURL' = url
         /\ Fetch(url, ServerArchives(url), "DownloadServer", "downloadServer", "ExtractServer")
  /\ UNCHANGED <<goos, goarch, token, fs, appDir, sourceRoot, mcpUrl,
                 zipRes, tarRes>>

ExtractServer ==
  /\ pc = "ExtractServer"
  /\ Extract(IF HasSuffix(serverURL, dotZip) THEN "zip" ELSE "tgz", appDir,
             [fs |-> fs, ok |-> TRUE],
             "ExtractServer", "extractServer", "WriteCleanup")
  /\ UNCHANGED <<goos, goarch, token, appDir, sourceRoot, mcpUrl, serverURL,
                 out, requests, getenvs, zipRes, tarRes>>

(* the execute bit of start.sh, the cleanup script, and the return of main *)
WriteCleanup ==
  /\ pc = "WriteCleanup"
  /\ LET startScriptPath == Join(appDir, n_start_sh)
         f1 == IF goos # "windows" THEN Chmod(fs, startScriptPath) ELSE fs
         e1 == IF goos # "windows" /\ ~Exists(fs, startScriptPath)
                 THEN {"chmod"} ELSE {}
         script == Join(installDir,
                        IF goos = "windows" THEN n_cleanup_bat ELSE n_cleanup_sh)
         w  == WriteFile(f1, script, "cleanup", TRUE)
         f2 == IF goos = "windows" THEN w.fs ELSE Chmod(w.fs, script)
     IN  /\ fs' = f2
         /\ errs' = errs \cup e1 \cup (IF w.ok THEN {} ELSE {"writeCleanup"})
         /\ trace' = Append(trace, Ev("WriteCleanup", w.ok, "", script))
  /\ pc' = "exited"
  /\ exitStatus' = 0
  /\ UNCHANGED <<goos, goarch, token, buf, appDir, sourceRoot, mcpUrl,
                 serverURL, out, requests, getenvs, zipRes, tarRes>>

Next ==
  \/ DownloadApp
  \/ ExtractApp
  \/ MoveIntoPlace
  \/ DownloadXmlui
  \/ ExtractXmlui
  \/ CopyComponents
  \/ RemoveTmpDir
  \/ DownloadMCP
  \/ ExtractMCP
  \/ Relocate
  \/ RemoveTmpMCP
  \/ MoveStray
  \/ DownloadServer
  \/ ExtractServer
  \/ WriteCleanup

Spec == Init /\ [][Next]_vars

-----------------------------------------------------------------------------
(* the two extractors side by side: the same entries, packed as a zip and  *)
(* as a gzip-tar, are extracted into an empty staging directory            *)

MaxEntries == 2

ExtractEntries ==
  {D(<<n_bin>>),
   F(<<n_bin, n_xmlui_mcp>>, "tool"),
   F(<<n_start_sh>>, "start-srv"),
   F(<<n_xmlui_test_server>>, "srv"),
   F(<<n_README_md>>, "readme"),
   Entry(<<n_README_md>>, FALSE, "readme", "data")}

EntryLists ==
  UNION {[1..n -> ExtractEntries] : n \in 0..MaxEntries}

StagingFS == (tmpMCP :> DirNode)

InitExtract ==
  /\ pc = "Unzip"
  /\ goos \in OSes
  /\ goarch = "amd64"
  /\ token = ""
  /\ fs = StagingFS
  /\ buf \in {Archive("entries", es) : es \in EntryLists}
  /\ appDir = <<>>
  /\ sourceRoot = <<>>
  /\ mcpUrl = <<>>
  /\ serverURL = <<>>
  /\ exitStatus = -1
  /\ out = <<>>
  /\ requests = <<>>
  /\ getenvs = 0
  /\ trace = <<>>
  /\ errs = {}
  /\ zipRes = NoArchive
  /\ tarRes = NoArchive

Unzip ==
  /\ pc = "Unzip"
  /\ zipRes' = unzipTo(fs, Archive("zip", buf.entries), tmpMCP)
  /\ pc' = "Untar"
  /\ UNCHANGED <<goos, goarch, token, fs, buf, appDir, sourceRoot, mcpUrl,
                 serverURL, exitStatus, out, requests, getenvs, trace, errs,
                 tarRes>>

Untar ==
  /\ pc = "Untar"
  /\ tarRes' = untarGzTo(fs, Archive("tgz", buf.entries), tmpMCP)
  /\ pc' = "Extracted"
  /\ UNCHANGED <<goos, goarch, token, fs, buf, appDir, sourceRoot, mcpUrl,
                 serverURL, exitStatus, out, requests, getenvs, trace, errs,
                 zipRes>>

NextExtract ==
  \/ Unzip
  \/ Untar

SpecExtract == InitExtract /\ [][NextExtract]_vars

-----------------------------------------------------------------------------
(* properties *)

Events(ev) == {i \in DOMAIN trace : trace[i].ev = ev}

Printed(line) == Cardinality({i \in DOMAIN out : out[i] = line})

Halted == pc = "exited" /\ exitStatus = 1

(* the errors C1 lists as halting the run *)
ListedErrors ==
  {"downloadApp", "downloadXmlui", "downloadMCP", "downloadServer",
   "extractApp", "extractXmlui", "extractMCP", "extractServer",
   "mkdir", "write", "locateRoot", "readTmpDir", "copyDocs", "copySrc",
   "renameDocs", "renameSrc"}

(* C1: once any of the listed errors has occurred (a download error, an    *)
(* extraction error including a failed directory creation or write, no     *)
(* component-library root, a failed copy of docs or sources, a failed      *)
(* rename of a root docs or src directory) the process has halted with     *)
(* exit status 1; so exit status 0 is reached only without such an error.  *)
C1_ListedErrorsHalt == (errs \cap ListedErrors # {}) => Halted

(* C2: the tool archive is extracted as zip exactly when the OS is         *)
(* windows, as gzip-tar on every other OS, and the URL's extension agrees  *)
(* with the format.                                                        *)
C2_ZipOnlyOnWindows ==
  \A i \in Events("ExtractMCP") :
    /\ trace[i].fmt = "zip" <=> goos = "windows"
    /\ trace[i].fmt = "zip" => HasSuffix(mcpUrl, dotZip)
    /\ trace[i].fmt = "tgz" => HasSuffix(mcpUrl, dotTarGz)

(* C2 as amended: the tool archive is extracted as zip exactly when the OS *)
(* is windows or linux, as gzip-tar on every other OS, for every           *)
(* architecture, and the URL's extension agrees with the format.           *)
C2_ZipOnWindowsAndLinux ==
  \A i \in Events("ExtractMCP") :
    /\ trace[i].fmt = "zip" <=> goos \in {"windows", "linux"}
    /\ trace[i].fmt = "zip" => HasSuffix(mcpUrl, dotZip)
    /\ trace[i].fmt = "tgz" => HasSuffix(mcpUrl, dotTarGz)

C2_Witness ==
  \E i \in Events("ExtractMCP") :
    trace[i].fmt = "zip" /\ goos = "linux" /\ goarch = "arm64"

RecognizedPairs ==
  {<<"linux", "amd64">>, <<"darwin", "amd64">>, <<"darwin", "arm64">>,
   <<"windows", "amd64">>}

Asset(url, name) == \E ext \in {dotZip, dotTarGz} : HasSuffix(url, name \o ext)

MacArm == <<"-", "mac", "-", "arm">>

MacAmd == <<"-", "mac", "-", "amd">>

LinuxAmd64 == <<"-", "linux", "-", "amd64">>

WindowsAmd64 == <<"-", "windows", "-", "amd64">>

(* C3: for both resolvers every pair outside linux/amd64, darwin/amd64,    *)
(* darwin/arm64, windows/amd64 resolves to the macOS ARM64 asset.          *)
C3_UnrecognizedPairIsMacArm ==
  <<goos, goarch>> \notin RecognizedPairs =>
    /\ mcpUrl # <<>> => Asset(mcpUrl, MacArm)
    /\ serverURL # <<>> => Asset(serverURL, MacArm)

(* the asset an operating system maps to when the architecture is ignored *)
C3_AssetOf(url) ==
  CASE goos = "darwin" -> Asset(url, IF goarch = "arm64" THEN MacArm ELSE MacAmd)
    [] goos = "linux" -> Asset(url, LinuxAmd64)
    [] goos = "windows" -> Asset(url, WindowsAmd64)
    [] OTHER -> Asset(url, MacArm)

(* C3 as amended: for both resolvers a pair whose OS is none of darwin,    *)
(* linux, windows resolves to the macOS ARM64 asset; a pair whose OS is    *)
(* recognized resolves to that OS's asset whatever the architecture (the   *)
(* amd64 asset, on darwin the ARM asset for arm64 only); never an error.   *)
C3_FallbackByOS ==
  /\ mcpUrl # <<>> => C3_AssetOf(mcpUrl)
  /\ serverURL # <<>> => C3_AssetOf(serverURL)
  /\ Events("DownloadMCP") # {} => mcpUrl # <<>>
  /\ Events("DownloadServer") # {} => serverURL # <<>>

C3_Witness ==
  /\ <<goos, goarch>> = <<"darwin", "386">>
  /\ mcpUrl # <<>>
  /\ serverURL # <<>>

(* C4: on the same entries unzipTo and untarGzTo leave the same files and  *)
(* directories with the same contents, and both give the execute bit to    *)
(* exactly the files named *.sh, xmlui-mcp, xmlui-mcp-client or            *)
(* xmlui-test-server (where the platform has such a bit).                  *)
C4_ExtractorsAgree ==
  (pc = "Extracted" /\ \A i \in DOMAIN buf.entries : buf.entries[i].fault = "none") =>
    /\ DOMAIN zipRes.fs = DOMAIN tarRes.fs
    /\ \A p \in DOMAIN zipRes.fs :
         /\ zipRes.fs[p].kind = tarRes.fs[p].kind
         /\ zipRes.fs[p].data = tarRes.fs[p].data
    /\ goos # "windows" =>
         \A r \in {zipRes, tarRes} : \A p \in DOMAIN r.fs :
           r.fs[p].kind = "file" => (r.fs[p].exec <=> IsExecutableName(p))


C5_Prefix == <<"xmlui", "-", "invoice", "-">>

C5_Matches(f) ==
  {n \in Range(NameOrder) : <<n>> \in DOMAIN f /\ HasPrefix(n, C5_Prefix)}

C5_First(f) ==
  CHOOSE n \in C5_Matches(f) :
    \A m \in C5_Matches(f) :
      \E i, j \in DOMAIN NameOrder : NameOrder[i] = n /\ NameOrder[j] = m /\ i <= j

C5_Final == <<<<"xmlui", "-", "invoice">>>>

(* the entry and all below it are found under installDir/xmlui-invoice *)
C5_MovedTo(f, g, n) ==
  /\ <<n>> \notin DOMAIN g
  /\ \A q \in Under(f, <<n>>) :
       LET t == C5_Final \o SubSeq(q, 2, Len(q))
       IN  t \in DOMAIN g /\ g[t] = f[q]

C5_Returned(path, failed) ==
  /\ appDir' = path
  /\ trace'[Len(trace')].ev = "MoveIntoPlace"
  /\ trace'[Len(trace')].ok = ~failed
  /\ failed <=> (pc' = "exited" /\ exitStatus' = 1)

(* C5: moveIntoPlace renames an entry prefixed "xmlui-invoice-" to         *)
(* installDir/xmlui-invoice and returns that path without error whenever   *)
(* such an entry exists; without one it returns an error and an empty path *)
(* and changes nothing; "xmlui-invoice" itself is no match.                *)
C5_RenamesWheneverMatched ==
  [][pc = "MoveIntoPlace" =>
       IF C5_Matches(fs) # {}
         THEN C5_Returned(C5_Final, FALSE) /\ C5_MovedTo(fs, fs', C5_First(fs))
         ELSE C5_Returned(<<>>, TRUE) /\ fs' = fs]_vars

(* C5 as amended: when an entry prefixed "xmlui-invoice-" exists, the      *)
(* first in name order is renamed to installDir/xmlui-invoice and that     *)
(* path returned without error, provided the rename succeeds; when         *)
(* installDir/xmlui-invoice already exists as a directory the rename       *)
(* fails, and then, as when no entry matches, an error and an empty path   *)
(* are returned and nothing is renamed, created or removed.                *)
(* "xmlui-invoice" itself is no match.                                     *)
C5_RenamesUnlessTargetExists ==
  [][pc = "MoveIntoPlace" =>
       /\ (C5_Matches(fs) # {} /\ C5_Final \notin DOMAIN fs) =>
            C5_Returned(C5_Final, FALSE) /\ C5_MovedTo(fs, fs', C5_First(fs))
       /\ (C5_Matches(fs) # {} /\ IsDir(fs, C5_Final)) =>
            C5_Returned(<<>>, TRUE) /\ fs' = fs
       /\ C5_Matches(fs) = {} =>
            C5_Returned(<<>>, TRUE) /\ fs' = fs]_vars

C5_Witness ==
  /\ pc = "DownloadXmlui"
  /\ appDir = C5_Final
  /\ Join(appDir, n_Main_xmlui) \in DOMAIN fs

(* C6: the relocation of the expected tool files never aborts the run; it  *)
(* prints exactly one skip line for each expected file absent from the     *)
(* staging directory and none for a present one, and every present file is *)
(* found in mcp/ under its name afterwards.                                *)
C6_SkipsMissingTools ==
  [][pc = "Relocate" =>
       /\ pc' = "RemoveTmpMCP"
       /\ exitStatus' = -1
       /\ \A name \in Range(ExpectedFiles(goos)) :
            LET skips == Cardinality({i \in (DOMAIN out') \ (DOMAIN out) :
                                        out'[i] = <<"Skipping", name>>})
            IN  IF <<n_mcpTmp, name>> \in DOMAIN fs
                  THEN /\ skips = 0
                       /\ <<n_mcp, name>> \in DOMAIN fs'
                       /\ fs'[<<n_mcp, name>>].data = fs[<<n_mcpTmp, name>>].data
                  ELSE skips = 1]_vars

C6_Witness ==
  /\ pc = "RemoveTmpMCP"
  /\ Printed(<<"Skipping", n_xmlui_mcp>>) = 1
  /\ Printed(<<"Skipping", n_prepare_binaries_sh>>) = 1
  /\ <<n_mcp, n_run_mcp_client_sh>> \in DOMAIN fs
  /\ <<n_mcp, n_xmlui_mcp_client>> \in DOMAIN fs

Downloads == {"DownloadApp", "DownloadXmlui", "DownloadMCP", "DownloadServer"}

C7_Private ==
  <<"https", ":", "/", "/", "codeload", ".", "github", ".", "com", "/",
    "xmlui", "-", "com", "/", "xmlui", "/", "zip", "/", "refs", "/",
    "heads", "/", "main">>

(* C7: every call of downloadWithProgress sends exactly one GET, with or   *)
(* without the credential in the environment (without it the call warns    *)
(* and still sends); the credential is read and attached only for the      *)
(* private component-library URL and only when it is set, never for the    *)
(* application, tool or server archive.                                    *)
C7_CredentialOnlyForPrivateRepo ==
  /\ Len(requests) = Cardinality({i \in DOMAIN trace : trace[i].ev \in Downloads})
  /\ \A i \in DOMAIN requests :
       requests[i].auth = (IF requests[i].url = C7_Private THEN token ELSE "")
  /\ getenvs = Cardinality({i \in DOMAIN requests : requests[i].url = C7_Private})
  /\ Printed(<<"NoToken">>) =
       (IF token = "" THEN Cardinality(Events("DownloadXmlui")) ELSE 0)
  /\ Printed(<<"UsingToken">>) =
       (IF token # "" THEN Cardinality(Events("DownloadXmlui")) ELSE 0)

C7_Witness ==
  /\ token = ""
  /\ Len(requests) = 4
  /\ requests[2].url = C7_Private
  /\ Printed(<<"NoToken">>) = 1

(* C8: a docs or src directory at the root of the install directory when   *)
(* the stray-directory step runs is gone from the root after the step and  *)
(* its contents are under mcp/docs or mcp/src, also when those were        *)
(* populated by the component-library step.                                *)
C8_StrayDirectoriesMoved ==
  [][pc = "MoveStray" =>
       \A name \in {n_docs, n_src} :
         IsDir(fs, <<name>>) =>
           /\ <<name>> \notin DOMAIN fs'
           /\ \A q \in Under(fs, <<name>>) \ {<<name>>} :
                /\ (<<n_mcp>> \o q) \in DOMAIN fs'
                /\ fs'[<<n_mcp>> \o q] = fs[q]]_vars

StepOrder ==
  <<"DownloadApp", "ExtractApp", "MoveIntoPlace", "DownloadXmlui",
    "ExtractXmlui", "CopyComponents", "DownloadMCP", "ExtractMCP",
    "Relocate", "MoveStray", "DownloadServer", "ExtractServer",
    "WriteCleanup">>

StepNo(ev) == CHOOSE k \in DOMAIN StepOrder : StepOrder[k] = ev

(* C9: the events of a run occur in the fixed order, each at most once; a  *)
(* download begins only if every earlier download and extraction           *)
(* succeeded; the server archive is extracted only into the directory the  *)
(* application rename returned; the cleanup script is written only after   *)
(* the server extraction succeeded, never in a run that exits with 1, and  *)
(* is never run.                                                           *)
C9_FixedOrder ==
  /\ \A i \in DOMAIN trace : trace[i].ev \in Range(StepOrder)
  /\ \A i, j \in DOMAIN trace :
       i < j => StepNo(trace[i].ev) < StepNo(trace[j].ev)
  /\ \A i, j \in DOMAIN trace :
       (i < j /\ trace[j].ev \in Downloads
          /\ (trace[i].ev \in Downloads
              \/ trace[i].ev \in {"ExtractApp", "ExtractXmlui", "ExtractMCP"}))
         => trace[i].ok
  /\ \A j \in Events("ExtractServer") :
       \E i \in Events("MoveIntoPlace") :
         i < j /\ trace[i].ok /\ trace[j].dest = trace[i].dest
  /\ \A j \in Events("WriteCleanup") :
       /\ \E i \in Events("ExtractServer") : i < j /\ trace[i].ok
       /\ exitStatus # 1
  /\ exitStatus = 0 => Events("WriteCleanup") # {}

C9_Witness ==
  /\ exitStatus = 0
  /\ Len(trace) = Len(StepOrder)
  /\ <<n_cleanup_sh>> \in DOMAIN fs

(* C10: xmlui-source is gone before the tool download begins and mcpTmp    *)
(* before the server download begins, so neither exists in a run that      *)
(* exits with 0; xmlui-source is removed also when no extracted root       *)
(* prefixed "xmlui-" was found, and then nothing was copied and the run    *)
(* goes on.                                                                *)
C10_StagingRemoved ==
  /\ (pc = "DownloadMCP" \/ Events("DownloadMCP") # {}) =>
        <<n_xmlui_source>> \notin DOMAIN fs
  /\ (pc = "DownloadServer" \/ Events("DownloadServer") # {}) =>
        <<n_mcpTmp>> \notin DOMAIN fs
  /\ exitStatus = 0 =>
       /\ <<n_xmlui_source>> \notin DOMAIN fs
       /\ <<n_mcpTmp>> \notin DOMAIN fs
  /\ (pc = "DownloadMCP" /\ sourceRoot = <<>>) =>
       /\ exitStatus = -1
       /\ Events("CopyComponents") = {}
       /\ Under(fs, <<n_mcp>>) = {<<n_mcp>>, <<n_mcp, n_docs>>, <<n_mcp, n_src>>}

C10_Witness ==
  /\ exitStatus = 0
  /\ sourceRoot = <<>>
  /\ Events("Relocate") # {}
  /\ Printed(<<"Moved", n_xmlui_mcp>>) = 1

====
